---- MODULE Spec2Model ----
(***************************************************************************)
(* Model of youtube_downloader_api.py: the in-memory task registry         *)
(* (progress_store), the batch endpoint (start_download), the background   *)
(* executor (run_download with its progress_hook), the server-sent-event   *)
(* progress generator (progress_sse.gen) and the retrieval endpoint        *)
(* (fetch_file).                                                           *)
(*                                                                         *)
(* Python values are tagged records: JStr(s) with s a tuple of one-char    *)
(* strings, JInt(n), JNull (None) and Absent (a key that is not in a       *)
(* dict).  Status strings are TLA+ strings, as no conversion acts on them. *)
(***************************************************************************)
EXTENDS Integers, Sequences, FiniteSets, TLC

\* ------------------------------------------------------------------ bounds
MaxTasks == 2
MaxItems == 3
MaxHooks == 2
MaxBytes == 1
MaxStreams == 2
MaxEmits == 2
MaxFiles == 2

\* ----------------------------------------------------------- Python values
JStr(s) == [t |-> "str", v |-> s]
JInt(n) == [t |-> "int", v |-> n]
JNull == [t |-> "null"]
Absent == [t |-> "absent"]

\* Python truthiness of a value (None, "", 0 and a missing key's None are falsy).
Truthy(x) ==
    CASE x.t = "str" -> x.v /= <<>>
      [] x.t = "int" -> x.v /= 0
      [] OTHER -> FALSE

\* dict.get(key, default): the default only replaces a missing key.
Get(x, default) == IF x = Absent THEN default ELSE x

\* str.lower() on the letters that occur in the model.
LowerChar(c) ==
    CASE c = "M" -> "m"
      [] c = "P" -> "p"
      [] c = "V" -> "v"
      [] c = "W" -> "w"
      [] OTHER -> c

Lower(s) == [i \in 1..Len(s) |-> LowerChar(s[i])]

\* str.endswith(suffix)
EndsWith(s, suf) ==
    /\ Len(suf) <= Len(s)
    /\ SubSeq(s, Len(s) - Len(suf) + 1, Len(s)) = suf

Digits == {"0", "1", "2", "3", "4", "5", "6", "7", "8", "9"}

\* str.isdigit(): non-empty and every character a digit.
IsDigit(s) == s /= <<>> /\ \A i \in 1..Len(s) : s[i] \in Digits

DigitVal(c) == CHOOSE n \in 0..9 : ToString(n) = c

RECURSIVE ParseInt(_)
\* int(s) for a string of digits.
ParseInt(s) ==
    IF s = <<>> THEN 0
    ELSE 10 * ParseInt(SubSeq(s, 1, Len(s) - 1)) + DigitVal(s[Len(s)])

\* os.path.join(dir, name)
PathJoin(dir, name) == dir \o <<"/">> \o name

\* ------------------------------------------------------------ format names
mp3 == <<"m", "p", "3">>
aac == <<"a", "a", "c">>
wav == <<"w", "a", "v">>
flac == <<"f", "l", "a", "c">>
m4a == <<"m", "4", "a">>
opus == <<"o", "p", "u", "s">>
mp4 == <<"m", "p", "4">>
webm == <<"w", "e", "b", "m">>
mkv == <<"m", "k", "v">>
avi == <<"a", "v", "i">>

audio_exts == {mp3, aac, wav, flac, m4a, opus}
video_exts == {mp4, webm, mkv, avi}

\* ------------------------------------------------------------------- state
VARIABLES
    FFMPEG_EXISTS,   \* line 22: the capability flag, computed once at start
    progress_store,  \* line 30: task_id -> entry
    run,             \* one run_download call per task handed to background_tasks
    streams,         \* the generators progress_sse returned
    reply            \* the last HTTP exchange: the request's argument, the response

vars == <<FFMPEG_EXISTS, progress_store, run, streams, reply>>

\* uuid4 values are modelled as the naturals, handed out in order.
TaskIds == 1..MaxTasks

Terminal == {"finished", "error"}

\* The entry start_download installs (line 270).
QueuedEntry ==
    [status |-> "queued", downloaded_bytes |-> JInt(0), total_bytes |-> JInt(0),
     file_path |-> JNull]

\* dict.update / item assignment on an entry: the keys of upd replace or extend st's.
Update(st, upd) == upd @@ st

Init ==
    /\ FFMPEG_EXISTS \in BOOLEAN
    /\ progress_store = <<>>
    /\ run = <<>>
    /\ streams = <<>>
    /\ reply = [op |-> "none"]

\* ------------------------------------------------- POST /download (257-273)
\* Mutant: the loop skips only the items that have no url key.
AcceptedWithKey(items) == SelectSeq(items, LAMBDA it : it.url /= Absent)

\* The items of the batch the loop does not skip (line 267), in order.
Accepted(items) == SelectSeq(items, LAMBDA it : Truthy(Get(it.url, JNull)))

\* str(uuid.uuid4()) for the k-th accepted item: an id no entry has yet.
NewId(store, k) == Cardinality(DOMAIN store) + k

\* The arguments background_tasks.add_task binds for an item (lines 264-266, 271).
\* `after` is the task added to the same BackgroundTasks object just before this
\* one (0 for the first): Starlette awaits the tasks of one response one after
\* the other, and an exception that leaves one of them ends the loop.
TaskArgs(it, prev) ==
    [pc |-> "pending", after |-> prev, url |-> it.url,
     fmt |-> Get(it.fmt, JStr(mp4)), quality |-> Get(it.quality, JNull),
     hooks |-> 0, calls |-> 0]

\* The check of line 260 on payload.get("items").
NoItems(items) == items.t /= "list" \/ items.v = <<>>

start_download(items) ==
    IF NoItems(items)
    THEN /\ reply' = [op |-> "start_download", items |-> items, code |-> 400,
                      detail |-> "No items provided"]
         /\ UNCHANGED <<FFMPEG_EXISTS, progress_store, run, streams>>
    ELSE LET acc == Accepted(items.v)
             new == {NewId(progress_store, k) : k \in 1..Len(acc)}
             idx(t) == t - Cardinality(DOMAIN progress_store)
         IN  /\ Cardinality(DOMAIN progress_store) + Len(acc) <= MaxTasks
             /\ progress_store' =
                    [t \in DOMAIN progress_store \cup new |->
                        IF t \in new THEN QueuedEntry ELSE progress_store[t]]
             /\ run' = [t \in DOMAIN run \cup new |->
                        IF t \in new
                        THEN TaskArgs(acc[idx(t)], IF idx(t) = 1 THEN 0 ELSE t - 1)
                        ELSE run[t]]
             /\ reply' = [op |-> "start_download", items |-> items, code |-> 200,
                          task_ids |-> [k \in 1..Len(acc) |-> NewId(progress_store, k)]]
             /\ UNCHANGED <<FFMPEG_EXISTS, streams>>

\* ------------------------------------------- run_download (lines 308-398)
\* tempfile.mkdtemp(prefix="yt_dl_") of the call for task t: a fresh directory.
TempDir(t) == <<"y", "t", "_", "d", "l", "_", ToString(t)>>

\* fmt.lower() (line 322) raises AttributeError when fmt is not a str.
FmtRaises(fmt) == fmt.t /= "str"

\* `quality and quality.isdigit()` (lines 335, 345) raises AttributeError when
\* quality is truthy and not a str.
QualityRaises(quality) == Truthy(quality) /\ quality.t /= "str"

\* int(quality) if quality and quality.isdigit() else None
QualityNum(quality) ==
    IF Truthy(quality) /\ IsDigit(quality.v) THEN JInt(ParseInt(quality.v)) ELSE JNull

\* opts["postprocessors"] as lines 331-365 build it for the lowered fmt f and a
\* quality that does not raise: the keys of the post-steps, in order.
postprocessors(f, quality) ==
    IF f \in audio_exts THEN <<"FFmpegExtractAudio">>
    ELSE IF f \in video_exts
    THEN IF f = mp4
         THEN IF Truthy(QualityNum(quality)) THEN <<"FFmpegVideoConvertor">> ELSE <<>>
         ELSE <<"FFmpegVideoConvertor">>
    ELSE <<>>

\* Mutant: the audio branch without the FFMPEG_EXISTS test of line 332.
PreludeNoProbe(fmt, quality, ffmpeg) ==
    IF FmtRaises(fmt) THEN "uncaught"
    ELSE LET f == Lower(fmt.v) IN
         IF f \in audio_exts \cup video_exts
         THEN IF QualityRaises(quality) THEN "uncaught" ELSE "extract_info"
         ELSE "unsupported_format"

\* Where lines 320-369 leave the call: the pc it reaches.
Prelude(fmt, quality, ffmpeg) ==
    IF FmtRaises(fmt) THEN "uncaught"
    ELSE LET f == Lower(fmt.v) IN
         IF f \in audio_exts
         THEN IF ~ffmpeg THEN "capability_missing"
              ELSE IF QualityRaises(quality) THEN "uncaught" ELSE "extract_info"
         ELSE IF f \in video_exts
         THEN IF QualityRaises(quality) THEN "uncaught" ELSE "extract_info"
         ELSE "unsupported_format"

\* The pcs at which run_download has returned: lines 334, 369, 385/392, 394, 398.
Returned == {"capability_missing", "unsupported_format", "picked", "no_artifact",
             "exception"}

\* ... or has ended in any way: "uncaught" is an exception raised outside the try.
Over == Returned \cup {"uncaught"}

\* The entry after the prelude: lines 333 and 368 write "error", nothing else writes.
PreludeEntry(st, pc) ==
    IF pc \in {"capability_missing", "unsupported_format"}
    THEN Update(st, [status |-> "error"])
    ELSE st

\* run_download from its call to the try of line 371 (or to its early end).  It
\* starts once the task before it in the same response has returned.
run_download(t) ==
    /\ t \in DOMAIN run
    /\ run[t].pc = "pending"
    /\ IF run[t].after = 0 THEN TRUE ELSE run[run[t].after].pc \in Returned
    /\ LET pc == Prelude(run[t].fmt, run[t].quality, FFMPEG_EXISTS) IN
       /\ run' = [run EXCEPT ![t].pc = pc,
                             ![t].calls = IF pc = "extract_info" THEN @ + 1 ELSE @]
       /\ progress_store' =
              [progress_store EXCEPT ![t] = PreludeEntry(@, pc)]
    /\ UNCHANGED <<FFMPEG_EXISTS, streams, reply>>

\* Mutant: a hook that takes a report of any phase for a "downloading" one.
HookEntryAnyPhase(st, d) ==
    Update(st, [status |-> "downloading",
                downloaded_bytes |-> Get(d.downloaded_bytes, JInt(0)),
                total_bytes |-> IF Truthy(d.total_bytes) THEN d.total_bytes
                                ELSE Get(d.total_bytes_estimate, JInt(0))])

\* progress_hook (lines 311-318): the entry after a callback with dict d.
HookEntry(st, d) ==
    IF d.status = "downloading"
    THEN Update(st, [status |-> "downloading",
                     downloaded_bytes |-> Get(d.downloaded_bytes, JInt(0)),
                     total_bytes |-> IF Truthy(d.total_bytes) THEN d.total_bytes
                                     ELSE Get(d.total_bytes_estimate, JInt(0))])
    ELSE st

\* Mutant: hooks that are still delivered after run_download has written its outcome.
HookEnabledLate(pc) == pc \in {"extract_info", "picked", "no_artifact", "exception"}

\* The fetch operation calls the hook only while extract_info (line 373) runs.
HookEnabled(pc) == pc = "extract_info"

\* Mutant: a hook that writes the report into the entry of every task.
progress_hook_shared(t, d) ==
    /\ t \in DOMAIN run
    /\ HookEnabled(run[t].pc)
    /\ run[t].hooks < MaxHooks
    /\ run' = [run EXCEPT ![t].hooks = @ + 1]
    /\ progress_store' = [u \in DOMAIN progress_store |-> HookEntry(progress_store[u], d)]
    /\ UNCHANGED <<FFMPEG_EXISTS, streams, reply>>

progress_hook(t, d) ==
    /\ t \in DOMAIN run
    /\ HookEnabled(run[t].pc)
    /\ run[t].hooks < MaxHooks
    /\ run' = [run EXCEPT ![t].hooks = @ + 1]
    /\ progress_store' = [progress_store EXCEPT ![t] = HookEntry(@, d)]
    /\ UNCHANGED <<FFMPEG_EXISTS, streams, reply>>

RECURSIVE FirstMatchCaseSensitive(_, _)
\* Mutant: the loop of lines 378-385 comparing the names as they are spelled.
FirstMatchCaseSensitive(files, target_ext) ==
    IF files = <<>> THEN <<>>
    ELSE IF EndsWith(Head(files), <<".">> \o target_ext) THEN <<Head(files)>>
    ELSE FirstMatchCaseSensitive(Tail(files), target_ext)

RECURSIVE FirstMatch(_, _)
\* The loop of lines 378-385: the first name of the listing that ends with
\* "." + target_ext once lowered, or <<>> if there is none.
FirstMatch(files, target_ext) ==
    IF files = <<>> THEN <<>>
    ELSE IF EndsWith(Lower(Head(files)), <<".">> \o target_ext) THEN <<Head(files)>>
    ELSE FirstMatch(Tail(files), target_ext)

\* Mutant: the fallback of lines 386-392 without the `if entries` test.
PickFinalNoEmptyTest(dir, f, files, scan) ==
    LET m == FirstMatch(files, f) IN
    IF m /= <<>>
    THEN [status |-> "finished", file_path |-> JStr(PathJoin(dir, m[1]))]
    ELSE [status |-> "finished",
          file_path |-> IF scan /= <<>> THEN JStr(PathJoin(dir, scan[1])) ELSE JNull]

\* Lines 375-394: the update that follows a normal return of extract_info, given
\* os.listdir's and os.scandir's orders of the directory.
PickFinal(dir, f, files, scan) ==
    LET m == FirstMatch(files, f) IN
    IF m /= <<>>
    THEN [status |-> "finished", file_path |-> JStr(PathJoin(dir, m[1]))]
    ELSE IF scan /= <<>>
    THEN [status |-> "finished", file_path |-> JStr(PathJoin(dir, scan[1]))]
    ELSE [status |-> "error"]

extract_info_return(t, files, scan) ==
    /\ t \in DOMAIN run
    /\ run[t].pc = "extract_info"
    /\ LET upd == PickFinal(TempDir(t), Lower(run[t].fmt.v), files, scan) IN
       /\ progress_store' = [progress_store EXCEPT ![t] = Update(@, upd)]
       /\ run' = [run EXCEPT ![t].pc = IF upd.status = "finished" THEN "picked"
                                       ELSE "no_artifact"]
    /\ UNCHANGED <<FFMPEG_EXISTS, streams, reply>>

\* Mutant: the handler also stores the exception's text.
ExceptEntryWithInfo(st) ==
    Update(st, [status |-> "error", error_info |-> JStr(<<"e">>)])

\* Lines 396-398: what the handler writes after an exception inside the try.
ExceptEntry(st) == Update(st, [status |-> "error"])

extract_info_raise(t) ==
    /\ t \in DOMAIN run
    /\ run[t].pc = "extract_info"
    /\ progress_store' = [progress_store EXCEPT ![t] = ExceptEntry(@)]
    /\ run' = [run EXCEPT ![t].pc = "exception"]
    /\ UNCHANGED <<FFMPEG_EXISTS, streams, reply>>

\* ------------------------------------- GET /progress/{task_id} (278-289)
\* A stream is the generator's position (pc) and the events it has yielded (out);
\* opened_on records the status the entry had when the request was served, and no
\* action reads it.
progress_sse(task_id) ==
    IF task_id \notin DOMAIN progress_store
    THEN /\ reply' = [op |-> "progress_sse", task_id |-> task_id, code |-> 404,
                      detail |-> "Task not found"]
         /\ UNCHANGED <<FFMPEG_EXISTS, progress_store, run, streams>>
    ELSE /\ Len(streams) < MaxStreams
         /\ streams' = Append(streams,
                [task_id |-> task_id, pc |-> "loop", out |-> <<>>,
                 opened_on |-> progress_store[task_id].status])
         /\ reply' = [op |-> "progress_sse", task_id |-> task_id, code |-> 200,
                      stream |-> Len(streams) + 1]
         /\ UNCHANGED <<FFMPEG_EXISTS, progress_store, run>>

\* Lines 284-285: d = progress_store[task_id]; the event is json.dumps(d) as the
\* entry is at that moment; the generator is then suspended at the yield.
gen_yield(s) ==
    /\ s \in DOMAIN streams
    /\ streams[s].pc = "loop"
    /\ Len(streams[s].out) < MaxEmits
    /\ streams' = [streams EXCEPT ![s].out = Append(@, progress_store[streams[s].task_id]),
                                  ![s].pc = "yielded"]
    /\ UNCHANGED <<FFMPEG_EXISTS, progress_store, run, reply>>

\* Mutant: the generator sleeps once more before it looks at the status.
GenAfterYieldSleepFirst(status) == "sleep"

\* Line 286, run when the generator is resumed: d is the entry itself, not a copy,
\* so d["status"] is the status at the time of the resumption.
GenAfterYield(status) == IF status \in Terminal THEN "closed" ELSE "sleep"

gen_resume(s) ==
    /\ s \in DOMAIN streams
    /\ streams[s].pc = "yielded"
    /\ streams' = [streams EXCEPT
                     ![s].pc = GenAfterYield(progress_store[streams[s].task_id].status)]
    /\ UNCHANGED <<FFMPEG_EXISTS, progress_store, run, reply>>

\* Line 288: time.sleep(0.5) is over and the loop starts again.
gen_sleep(s) ==
    /\ s \in DOMAIN streams
    /\ streams[s].pc = "sleep"
    /\ streams' = [streams EXCEPT ![s].pc = "loop"]
    /\ UNCHANGED <<FFMPEG_EXISTS, progress_store, run, reply>>

\* ------------------------------------- GET /download/{task_id} (294-303)
\* Mutant: line 299 tests for "still running" instead of "finished".
FetchReplyLoose(store, task_id) ==
    IF task_id \notin DOMAIN store
    THEN [op |-> "fetch_file", task_id |-> task_id, code |-> 404,
          detail |-> "Task not found"]
    ELSE IF store[task_id].status \in {"queued", "downloading"}
    THEN [op |-> "fetch_file", task_id |-> task_id, code |-> 400, detail |-> "Not ready"]
    ELSE [op |-> "fetch_file", task_id |-> task_id, code |-> 200,
          path |-> store[task_id].file_path]

\* The response of fetch_file on a registry.
FetchReply(store, task_id) ==
    IF task_id \notin DOMAIN store
    THEN [op |-> "fetch_file", task_id |-> task_id, code |-> 404,
          detail |-> "Task not found"]
    ELSE IF store[task_id].status /= "finished"
    THEN [op |-> "fetch_file", task_id |-> task_id, code |-> 400, detail |-> "Not ready"]
    ELSE [op |-> "fetch_file", task_id |-> task_id, code |-> 200,
          path |-> store[task_id].file_path]

fetch_file(task_id) ==
    /\ reply' = FetchReply(progress_store, task_id)
    /\ UNCHANGED <<FFMPEG_EXISTS, progress_store, run, streams>>

\* ------------------------------------------------- GET /formats (46-74)
none == <<"n", "o", "n", "e">>

\* label_from_height (lines 46-51)
label_from_height(h) ==
    IF h >= 2160 THEN "4K"
    ELSE IF h >= 1440 THEN "2K"
    ELSE IF h >= 1080 THEN "1080p"
    ELSE IF h >= 720 THEN "720p"
    ELSE ToString(h) \o "p"

\* The tests of lines 63 and 67 on a descriptor's codecs.
IsVideoOnly(f) == f.vcodec /= JStr(none) /\ f.acodec = JStr(none)
IsAudioOnly(f) == f.acodec /= JStr(none) /\ f.vcodec = JStr(none)

\* Mutant: the entry of a key is replaced by every later descriptor with that key.
MapStepLastWins(map, key, tbr) ==
    IF Truthy(key)
    THEN [k \in DOMAIN map \cup {key.v} |-> IF k = key.v THEN tbr ELSE map[k]]
    ELSE map

\* Lines 65-66 and 69-70: the map after a descriptor with metric `key` (height or
\* abr) and bitrate tbr: a new key is entered, a known key only for a higher tbr.
\* The map is written key -> tbr; the dict stored with it repeats the key.
MapStep(map, key, tbr) ==
    IF ~Truthy(key) THEN map
    ELSE IF key.v \notin DOMAIN map
    THEN [k \in DOMAIN map \cup {key.v} |-> IF k = key.v THEN tbr ELSE map[k]]
    ELSE IF tbr.v > map[key.v].v
    THEN [map EXCEPT ![key.v] = tbr]
    ELSE map

RECURSIVE video_map(_)
\* video_map after the loop of lines 62-70 over fmts.
video_map(fmts) ==
    IF fmts = <<>> THEN <<>>
    ELSE LET f == fmts[Len(fmts)]
             before == video_map(SubSeq(fmts, 1, Len(fmts) - 1))
         IN  IF IsVideoOnly(f) THEN MapStep(before, f.height, f.tbr) ELSE before

RECURSIVE audio_map(_)
\* audio_map after the loop of lines 62-70 over fmts.
audio_map(fmts) ==
    IF fmts = <<>> THEN <<>>
    ELSE LET f == fmts[Len(fmts)]
             before == audio_map(SubSeq(fmts, 1, Len(fmts) - 1))
         IN  IF IsAudioOnly(f) THEN MapStep(before, f.abr, f.tbr) ELSE before

RECURSIVE SortedReverse(_)
\* sorted(keys, reverse=True)
SortedReverse(keys) ==
    IF keys = {} THEN <<>>
    ELSE LET top == CHOOSE k \in keys : \A j \in keys : j <= k
         IN  <<top>> \o SortedReverse(keys \ {top})

\* The response of lines 71-74 for info["formats"] = fmts.
FormatsReply(fmts) ==
    LET vs == SortedReverse(DOMAIN video_map(fmts))
        as == SortedReverse(DOMAIN audio_map(fmts))
    IN  [op |-> "get_formats", formats |-> fmts, code |-> 200,
         video |-> [i \in 1..Len(vs) |->
                       [height |-> vs[i], label |-> label_from_height(vs[i])]],
         audio |-> [i \in 1..Len(as) |->
                       [abr |-> as[i], label |-> ToString(as[i]) \o " kbps"]]]

\* get_formats, given the formats extract_info(url, download=False) returned.
get_formats(fmts) ==
    /\ reply' = FormatsReply(fmts)
    /\ UNCHANGED <<FFMPEG_EXISTS, progress_store, run, streams>>

\* ------------------------------------------------------------------ inputs
Urls == {Absent, JStr(<<>>), JStr(<<"A">>)}

\* fmt: every extension of audio_exts and video_exts (mp4 also as the default of a
\* missing key), an upper-case spelling, an unknown name, and a JSON null.
Fmts ==
    {Absent, JNull, JStr(<<"M", "P", "3">>), JStr(<<"x">>)}
    \cup {JStr(e) : e \in audio_exts \cup video_exts}

\* quality: missing, a digit string, a non-digit string, a JSON number.
Qualities == {Absent, JStr(<<"7", "2", "0">>), JStr(<<"h", "d">>), JInt(720)}

\* Items with no usable url carry no other key: nothing reads them.
SkippedItems == {[url |-> u, fmt |-> Absent, quality |-> Absent] : u \in Urls \ {JStr(<<"A">>)}}

ItemsOver(fmts, qualities) ==
    SkippedItems
    \cup {[url |-> JStr(<<"A">>), fmt |-> f, quality |-> q] : f \in fmts, q \in qualities}

RECURSIVE SeqsUpTo(_, _)
\* The sequences over S of length at most n.
SeqsUpTo(S, n) ==
    IF n = 0 THEN {<<>>}
    ELSE LET shorter == SeqsUpTo(S, n - 1) IN
         shorter \cup {Append(q, x) : q \in shorter, x \in S}

\* payload.get("items"): a list of at most n items, or no list at all.
BatchesOver(items, n) == {JNull} \cup {[t |-> "list", v |-> q] : q \in SeqsUpTo(items, n)}

ByteValues == {Absent, JNull} \cup {JInt(n) : n \in 0..MaxBytes}

\* The dicts the fetch operation hands to its progress hooks.
HookDictsOver(values) ==
    {[status |-> "downloading", downloaded_bytes |-> d, total_bytes |-> tb,
      total_bytes_estimate |-> e] : d \in values, tb \in values, e \in values}
    \cup {[status |-> "finished", downloaded_bytes |-> JInt(MaxBytes),
           total_bytes |-> JInt(MaxBytes), total_bytes_estimate |-> Absent]}

FileNames == {<<"v", ".", "m", "p", "4">>, <<"V", ".", "M", "P", "3">>,
              <<"a", ".", "w", "e", "b", "m">>, <<"x", "m", "p", "4">>}

NoRepeat(q) == \A i, j \in 1..Len(q) : q[i] = q[j] => i = j

\* The listings of a working directory: no name twice.
ListingsOver(names) == {q \in SeqsUpTo(names, MaxFiles) : NoRepeat(q)}

SameFiles(a, b) == {a[i] : i \in 1..Len(a)} = {b[i] : i \in 1..Len(b)}

\* What os.listdir and os.scandir may return for one directory: the same names,
\* each in an order of its own.
ListingPairsOver(names) ==
    {p \in ListingsOver(names) \X ListingsOver(names) : SameFiles(p[1], p[2])}

\* ---------------------------------------------------------- specifications
\* Spec: one request with one item, every fmt and quality, every hook dict and
\* every directory listing; the retrieval endpoint; no observer (a progress
\* request names an unknown task).
Items == ItemsOver(Fmts, Qualities)
SoloBatches == BatchesOver(Items, 1)
HookDicts == HookDictsOver(ByteValues)
ListingPairs == ListingPairsOver(FileNames)

Next ==
    \/ \E items \in SoloBatches : progress_store = <<>> /\ start_download(items)
    \/ \E t \in TaskIds : run_download(t)
    \/ \E t \in TaskIds, d \in HookDicts : progress_hook(t, d)
    \/ \E t \in TaskIds, p \in ListingPairs : extract_info_return(t, p[1], p[2])
    \/ \E t \in TaskIds : extract_info_raise(t)
    \/ \E task_id \in TaskIds \ DOMAIN progress_store : progress_sse(task_id)
    \/ \E task_id \in TaskIds : fetch_file(task_id)

Spec == Init /\ [][Next]_vars

\* SpecStreams: observers against an executor.  One request of one item; the fmt is
\* the default or an audio one; every hook reports the same byte counts.
StreamItems == ItemsOver({Absent, JStr(mp3)}, {Absent})
StreamBatches == BatchesOver(StreamItems, 1)
StreamHookDicts ==
    {[status |-> st, downloaded_bytes |-> JInt(n), total_bytes |-> JInt(MaxBytes),
      total_bytes_estimate |-> Absent] : st \in {"downloading", "finished"},
                                         n \in {MaxBytes}}
StreamListings == {<<>>, <<<<"v", ".", "m", "p", "4">>>>}

NextStreams ==
    \/ \E items \in StreamBatches : progress_store = <<>> /\ start_download(items)
    \/ \E t \in TaskIds : run_download(t)
    \/ \E t \in TaskIds, d \in StreamHookDicts : progress_hook(t, d)
    \/ \E t \in TaskIds, files \in StreamListings :
          extract_info_return(t, files, files)
    \/ \E t \in TaskIds : extract_info_raise(t)
    \/ \E task_id \in DOMAIN progress_store : progress_sse(task_id)
    \/ \E s \in 1..MaxStreams : gen_yield(s)
    \/ \E s \in 1..MaxStreams : gen_resume(s)
    \/ \E s \in 1..MaxStreams : gen_sleep(s)

SpecStreams == Init /\ [][NextStreams]_vars

\* SpecBatch: batches of several items, skipped ones among them; the executors
\* run without progress reports.
BatchItems == ItemsOver({Absent, JNull}, {Absent})
Batches == BatchesOver(BatchItems, MaxItems)

NextBatch ==
    \/ \E items \in Batches : start_download(items)
    \/ \E t \in TaskIds : run_download(t)
    \/ \E t \in TaskIds, files \in StreamListings :
          extract_info_return(t, files, files)
    \/ \E t \in TaskIds : extract_info_raise(t)

SpecBatch == Init /\ [][NextBatch]_vars

\* SpecFormats: the resolver on every catalog of at most MaxCatalog descriptors:
\* video-only and audio-only ones of two metric values each and every bitrate up
\* to MaxTbr, a muxed one and one with neither codec.
MaxCatalog == 3
MaxTbr == 2
Heights == {480, 1080}
Abrs == {128, 160}

Descriptors ==
    {[vcodec |-> JStr(<<"a", "v", "c", "1">>), acodec |-> JStr(none),
      height |-> JInt(h), abr |-> JNull, tbr |-> JInt(b)] : h \in Heights, b \in 1..MaxTbr}
    \cup {[vcodec |-> JStr(none), acodec |-> JStr(opus),
           height |-> JNull, abr |-> JInt(a), tbr |-> JInt(b)] : a \in Abrs, b \in 1..MaxTbr}
    \cup {[vcodec |-> JStr(<<"a", "v", "c", "1">>), acodec |-> JStr(opus),
           height |-> JInt(2160), abr |-> JInt(192), tbr |-> JInt(MaxTbr)],
          [vcodec |-> JStr(none), acodec |-> JStr(none),
           height |-> JInt(90), abr |-> JNull, tbr |-> JInt(MaxTbr)]}

Catalogs == SeqsUpTo(Descriptors, MaxCatalog)

\* One request per behaviour: the handler keeps no state between requests.
NextFormats == \E fmts \in Catalogs : reply.op = "none" /\ get_formats(fmts)

SpecFormats == Init /\ [][NextFormats]_vars

\* SpecProgress: one task with default options, watched by one stream, whose
\* fetch operation reports every byte count up to MaxBytes + 1, so that two
\* different nonzero counts occur.
ProgressItems == ItemsOver({Absent}, {Absent})
ProgressBatches == BatchesOver(ProgressItems, 1)
ProgressValues == {Absent, JNull} \cup {JInt(n) : n \in 0..MaxBytes + 1}
ProgressHookDicts == HookDictsOver(ProgressValues)

NextProgress ==
    \/ \E items \in ProgressBatches : progress_store = <<>> /\ start_download(items)
    \/ \E t \in TaskIds : run_download(t)
    \/ \E t \in TaskIds, d \in ProgressHookDicts : progress_hook(t, d)
    \/ \E t \in TaskIds, files \in StreamListings : extract_info_return(t, files, files)
    \/ \E t \in TaskIds : extract_info_raise(t)
    \/ \E task_id \in DOMAIN progress_store : streams = <<>> /\ progress_sse(task_id)
    \/ \E s \in 1..MaxStreams : gen_yield(s)
    \/ \E s \in 1..MaxStreams : gen_resume(s)
    \/ \E s \in 1..MaxStreams : gen_sleep(s)

SpecProgress == Init /\ [][NextProgress]_vars

\* SpecFrame: two tasks from two requests, so that their executors run
\* concurrently, with one stream and the retrieval operation beside them.
FrameBatches == {items \in ProgressBatches : ~NoItems(items) /\ Accepted(items.v) /= <<>>}
FrameHookDicts == {d \in StreamHookDicts : d.status = "downloading"}

NextFrame ==
    \/ \E items \in FrameBatches :
          Cardinality(DOMAIN progress_store) <= 1 /\ start_download(items)
    \/ \E t \in TaskIds : run_download(t)
    \/ \E t \in TaskIds, d \in FrameHookDicts : progress_hook(t, d)
    \/ \E t \in TaskIds, files \in StreamListings :
          extract_info_return(t, files, files)
    \/ \E t \in TaskIds : extract_info_raise(t)
    \/ \E task_id \in DOMAIN progress_store : streams = <<>> /\ progress_sse(task_id)
    \/ \E s \in 1..MaxStreams : gen_yield(s)
    \/ \E s \in 1..MaxStreams : gen_resume(s)
    \/ \E s \in 1..MaxStreams : gen_sleep(s)
    \/ \E task_id \in DOMAIN progress_store : fetch_file(task_id)

SpecFrame == Init /\ [][NextFrame]_vars

\* SpecPick: one task of every fmt whose fetch operation returns with every
\* content of the working directory, in every pair of listing orders.
PickItems == ItemsOver(Fmts, {Absent})
PickBatches == BatchesOver(PickItems, 1)

NextPick ==
    \/ \E items \in PickBatches : progress_store = <<>> /\ start_download(items)
    \/ \E t \in TaskIds : run_download(t)
    \/ \E t \in TaskIds, p \in ListingPairs : extract_info_return(t, p[1], p[2])

SpecPick == Init /\ [][NextPick]_vars

\* ------------------------------------------------------------------ claims
\* The spec's status names: queued < running ("downloading") < {finished, failed
\* ("error")}.
StatusRank(status) ==
    CASE status = "queued" -> 0
      [] status = "downloading" -> 1
      [] status \in Terminal -> 2

\* A value that is present: a non-empty string.
Present(x) == x.t = "str" /\ x.v /= <<>>

HasErrorInfo(st) == "error_info" \in DOMAIN st

\* C1: in every step, each task's status keeps or raises its rank in
\* queued < downloading < {finished, error}, and an entry whose status is finished
\* or error is left exactly as it is.
C1_StatusForwardAndSticky ==
    [][\A t \in DOMAIN progress_store :
          /\ StatusRank(progress_store[t].status) <= StatusRank(progress_store'[t].status)
          /\ progress_store[t].status \in Terminal
                => progress_store'[t] = progress_store[t]]_vars

\* C1 witness: a task that went through "downloading" callbacks and is terminal,
\* with the executor over.
C1_Witness ==
    \E t \in DOMAIN progress_store :
        /\ progress_store[t].status = "finished"
        /\ run[t].hooks = MaxHooks
        /\ progress_store[t].downloaded_bytes = JInt(MaxBytes)

AudioClass(fmt) == fmt.t = "str" /\ Lower(fmt.v) \in audio_exts

\* C9: without the capability, an audio-class task is queued until its executor
\* runs and from then on is failed through the capability test: it never has the
\* status downloading, no hook ran and extract_info was never called.
C9_AudioWithoutCapabilityFails ==
    \A t \in DOMAIN run :
        (~FFMPEG_EXISTS /\ AudioClass(run[t].fmt)) =>
            /\ run[t].calls = 0
            /\ run[t].hooks = 0
            /\ IF run[t].pc = "pending"
               THEN progress_store[t].status = "queued"
               ELSE /\ run[t].pc = "capability_missing"
                    /\ progress_store[t].status = "error"

\* C9 witness: such a task after its executor ran, with an upper-case fmt and a
\* quality that is no string.
C9_Witness ==
    \E t \in DOMAIN run :
        /\ ~FFMPEG_EXISTS
        /\ run[t].fmt = JStr(<<"M", "P", "3">>)
        /\ run[t].quality = JInt(720)
        /\ run[t].pc = "capability_missing"

\* C10: a step that answers a retrieval request answers 200 with the entry's
\* file_path exactly when the task is known and finished, 400 "Not ready" when it
\* is known and not finished, 404 when it is unknown, and changes no entry.
C10_FetchOnlyWhenFinished ==
    [][(reply' /= reply /\ reply'.op = "fetch_file") =>
          LET id == reply'.task_id IN
          /\ progress_store' = progress_store
          /\ run' = run
          /\ IF id \notin DOMAIN progress_store THEN reply'.code = 404
             ELSE IF progress_store[id].status = "finished"
             THEN /\ reply'.code = 200
                  /\ reply'.path = progress_store[id].file_path
             ELSE reply'.code = 400 /\ reply'.detail = "Not ready"]_vars

\* C10 witness: the artifact of a finished task was served.
C10_Witness ==
    /\ reply.op = "fetch_file"
    /\ reply.code = 200
    /\ Present(reply.path)

\* The events of all streams: every snapshot an observer has received.
Snapshots ==
    UNION {{streams[s].out[i] : i \in 1..Len(streams[s].out)} : s \in DOMAIN streams}

\* The last event a stream has yielded.
LastEvent(s) == streams[s].out[Len(streams[s].out)]

\* The number of terminal events a stream has yielded.
TerminalEvents(s) ==
    Cardinality({i \in 1..Len(streams[s].out) : streams[s].out[i].status \in Terminal})

\* C2: every entry, and every snapshot an observer received, has a file_path
\* (a non-empty string) exactly when its status is finished; otherwise its
\* file_path is None.
C2_FilePathIffFinished ==
    \A e \in {progress_store[t] : t \in DOMAIN progress_store} \cup Snapshots :
        /\ Present(e.file_path) <=> e.status = "finished"
        /\ e.status /= "finished" => e.file_path = JNull

\* C2 witness: an observer received a finished snapshot with its file_path, of a
\* task whose artifact is the fallback of lines 386-392.
C2_Witness ==
    \E s \in DOMAIN streams :
        /\ streams[s].out /= <<>>
        /\ LastEvent(s).status = "finished"
        /\ Present(LastEvent(s).file_path)
        /\ run[streams[s].task_id].fmt = JStr(mp3)

\* C4 as stated: a stream that has ended has yielded exactly one terminal
\* snapshot, as its last event, with the status the registry holds.
C4_EndedStreamGaveTerminalSnapshot ==
    \A s \in DOMAIN streams :
        streams[s].pc = "closed" =>
            /\ streams[s].out /= <<>>
            /\ TerminalEvents(s) = 1
            /\ LastEvent(s).status \in Terminal
            /\ LastEvent(s).status = progress_store[streams[s].task_id].status

\* C5 as stated: two streams on one task that have both ended show the same
\* terminal status in their last events.
C5_StreamsAgreeOnTerminalStatus ==
    \A s1, s2 \in DOMAIN streams :
        (/\ s1 /= s2
         /\ streams[s1].task_id = streams[s2].task_id
         /\ streams[s1].pc = "closed"
         /\ streams[s2].pc = "closed") =>
            /\ LastEvent(s1).status = LastEvent(s2).status
            /\ LastEvent(s1).status \in Terminal

\* C6: a stream opened on a task that is already finished or failed yields one
\* event, a terminal snapshot, and ends: it is at its first read, suspended at
\* its only yield, or ended, and it never sleeps.
C6_StreamOnTerminalTask ==
    \A s \in DOMAIN streams :
        streams[s].opened_on \in Terminal =>
            /\ streams[s].pc \in {"loop", "yielded", "closed"}
            /\ streams[s].pc = "loop" => streams[s].out = <<>>
            /\ streams[s].pc \in {"yielded", "closed"} =>
                  /\ Len(streams[s].out) = 1
                  /\ streams[s].out[1].status = streams[s].opened_on

\* C6 witness: such a stream has ended.
C6_Witness ==
    \E s \in DOMAIN streams :
        /\ streams[s].opened_on = "finished"
        /\ streams[s].pc = "closed"
        /\ Len(streams[s].out) = 1

\* The positions of a batch's items that have a non-empty source locator.
ValidAt(items) ==
    IF items.t /= "list" THEN {}
    ELSE {i \in 1..Len(items.v) : items.v[i].url.t = "str" /\ items.v[i].url.v /= <<>>}

\* The position of the k-th such item.
KthValid(items, k) ==
    CHOOSE i \in ValidAt(items) : Cardinality({j \in ValidAt(items) : j <= i}) = k

Range(q) == {q[i] : i \in 1..Len(q)}

\* C7: a step that answers a batch with at least one non-empty url answers 200
\* with one new, distinct task id per such item, in item order (the k-th id runs
\* the k-th such item); the registry gains exactly these ids, each with the queued
\* entry (counters 0, no file_path), and keeps every other entry as it was.
C7_SubmitCreatesOneTaskPerValidItem ==
    [][(reply' /= reply /\ reply'.op = "start_download" /\ ValidAt(reply'.items) /= {}) =>
          LET items == reply'.items
              n == Cardinality(ValidAt(items))
          IN  /\ reply'.code = 200
              /\ Len(reply'.task_ids) = n
              /\ Cardinality(Range(reply'.task_ids)) = n
              /\ Range(reply'.task_ids) \cap DOMAIN progress_store = {}
              /\ DOMAIN progress_store' = DOMAIN progress_store \cup Range(reply'.task_ids)
              /\ \A t \in DOMAIN progress_store : progress_store'[t] = progress_store[t]
              /\ \A t \in DOMAIN run : run'[t] = run[t]
              /\ \A k \in 1..n :
                    LET tid == reply'.task_ids[k]
                        it == items.v[KthValid(items, k)]
                    IN  /\ progress_store'[tid].status = "queued"
                        /\ progress_store'[tid].downloaded_bytes = JInt(0)
                        /\ progress_store'[tid].total_bytes = JInt(0)
                        /\ progress_store'[tid].file_path = JNull
                        /\ run'[tid].pc = "pending"
                        /\ run'[tid].url = it.url
                        /\ run'[tid].fmt = IF it.fmt = Absent THEN JStr(mp4) ELSE it.fmt]_vars

\* C7 witness: the batch [valid, empty url, valid] was answered with two ids while
\* the registry holds two queued entries.
C7_Witness ==
    /\ reply.op = "start_download"
    /\ reply.code = 200
    /\ reply.items.t = "list"
    /\ ValidAt(reply.items) = {1, 3}
    /\ reply.items.v[1].fmt /= reply.items.v[3].fmt
    /\ Len(reply.task_ids) = 2
    /\ \A t \in Range(reply.task_ids) : progress_store[t].status = "queued"

\* C8 as stated: a batch is rejected (a 400 answer) exactly when it is empty or
\* none of its items has a non-empty url, and a rejected batch creates no task.
C8_RejectedIffNoValidItem ==
    [][(reply' /= reply /\ reply'.op = "start_download") =>
          /\ (reply'.code = 400) <=> (ValidAt(reply'.items) = {})
          /\ reply'.code = 400 => progress_store' = progress_store /\ run' = run]_vars

\* The descriptors of a catalog that are video-only, audio-only.
VideoOnlyOf(fmts) == {i \in 1..Len(fmts) : fmts[i].vcodec /= JStr(none) /\ fmts[i].acodec = JStr(none)}
AudioOnlyOf(fmts) == {i \in 1..Len(fmts) : fmts[i].acodec /= JStr(none) /\ fmts[i].vcodec = JStr(none)}

StrictlyDescending(q) == \A i \in 1..Len(q) - 1 : q[i] > q[i + 1]

\* C11: for every catalog, the video list holds exactly the heights of the
\* video-only descriptors, each once, strictly descending, and the entry kept for
\* a height has the highest tbr among the descriptors of that height; the audio
\* list does the same on abr over the audio-only descriptors; muxed descriptors
\* add nothing, and the empty catalog gives two empty lists.
C11_ResolverDedupesAndSorts ==
    reply.op = "get_formats" =>
        LET fmts == reply.formats
            vh == [i \in 1..Len(reply.video) |-> reply.video[i].height]
            ab == [i \in 1..Len(reply.audio) |-> reply.audio[i].abr]
        IN  /\ reply.code = 200
            /\ StrictlyDescending(vh)
            /\ StrictlyDescending(ab)
            /\ Range(vh) = {fmts[i].height.v : i \in VideoOnlyOf(fmts)}
            /\ Range(ab) = {fmts[i].abr.v : i \in AudioOnlyOf(fmts)}
            /\ DOMAIN video_map(fmts) = Range(vh)
            /\ DOMAIN audio_map(fmts) = Range(ab)
            /\ \A i \in VideoOnlyOf(fmts) :
                  /\ video_map(fmts)[fmts[i].height.v].v >= fmts[i].tbr.v
                  /\ \E j \in VideoOnlyOf(fmts) :
                        /\ fmts[j].height = fmts[i].height
                        /\ fmts[j].tbr = video_map(fmts)[fmts[i].height.v]
            /\ \A i \in AudioOnlyOf(fmts) :
                  /\ audio_map(fmts)[fmts[i].abr.v].v >= fmts[i].tbr.v
                  /\ \E j \in AudioOnlyOf(fmts) :
                        /\ fmts[j].abr = fmts[i].abr
                        /\ fmts[j].tbr = audio_map(fmts)[fmts[i].abr.v]
            /\ fmts = <<>> => reply.video = <<>> /\ reply.audio = <<>>

\* C11 witness: a catalog with two video-only descriptors of one height, the
\* higher bitrate first, a lower height and a muxed descriptor was resolved.
C11_Witness ==
    /\ reply.op = "get_formats"
    /\ Len(reply.formats) = MaxCatalog
    /\ \E i, j \in VideoOnlyOf(reply.formats) :
          /\ i < j
          /\ reply.formats[i].height = reply.formats[j].height
          /\ reply.formats[i].tbr.v > reply.formats[j].tbr.v
    /\ Len(reply.video) = 1

\* C12: a task whose executor is over (it returned, or it was aborted by an
\* exception) is finished or failed: no executor ends leaving its task queued or
\* running, so no task stays non-terminal forever.
C12_ExecutorOverMeansTerminal ==
    \A t \in DOMAIN run :
        run[t].pc \in Over => progress_store[t].status \in Terminal

\* C13: a task B of a batch whose predecessor A in the same batch is over,
\* whatever A's outcome (returned or aborted by an uncaught error), is not
\* blocked: while B has not started, its executor can start.
C13_BatchTaskNotBlockedByOther ==
    \A t \in DOMAIN run :
        IF run[t].pc = "pending" /\ run[t].after /= 0
        THEN run[run[t].after].pc \in Over => ENABLED run_download(t)
        ELSE TRUE

\* The stored counters x and y are both numbers and x <= y.
Leq(x, y) == x.t = "int" /\ y.t = "int" => x.v <= y.v

\* C14: in every state, an entry whose total_bytes is known and nonzero has
\* downloaded_bytes <= total_bytes.
C14_DownloadedAtMostTotal ==
    \A t \in DOMAIN progress_store :
        progress_store[t].total_bytes \notin {JNull, JInt(0)} =>
            Leq(progress_store[t].downloaded_bytes, progress_store[t].total_bytes)

\* C15: no step lowers the total_bytes stored for a task.
C15_TotalNeverDecreases ==
    [][\A t \in DOMAIN progress_store :
          Leq(progress_store[t].total_bytes, progress_store'[t].total_bytes)]_vars

\* C16: the snapshots a stream has emitted have non-decreasing downloaded_bytes.
C16_SnapshotsNonDecreasing ==
    \A s \in DOMAIN streams :
        \A i \in 1..Len(streams[s].out) - 1 :
            Leq(streams[s].out[i].downloaded_bytes, streams[s].out[i + 1].downloaded_bytes)

\* The step is a step of the executor of task t, of a stream, of the retrieval.
ExecutorStep(t) == t \in DOMAIN run /\ run'[t] /= run[t]
StreamStep == streams' /= streams
FetchStep == reply' /= reply /\ reply'.op = "fetch_file"

\* C17: an existing entry changes only in a step of its own executor; a step of
\* the executor of task A leaves the entry of every other task unchanged; a step
\* of a stream or of the retrieval operation leaves every entry unchanged.
C17_EntryWrittenOnlyByOwnExecutor ==
    [][/\ \A t \in DOMAIN progress_store :
             /\ progress_store'[t] /= progress_store[t] => ExecutorStep(t)
             /\ ExecutorStep(t) =>
                   \A u \in DOMAIN progress_store \ {t} :
                       progress_store'[u] = progress_store[u]
       /\ StreamStep \/ FetchStep => progress_store' = progress_store]_vars

\* C17 witness: two tasks are running at once, both written by their hooks, while
\* a stream has emitted and the retrieval operation has answered.
C17_Witness ==
    /\ DOMAIN progress_store = {1, 2}
    /\ \A t \in {1, 2} : run[t].pc = "extract_info" /\ progress_store[t].status = "downloading"
    /\ \E s \in DOMAIN streams : streams[s].out /= <<>>
    /\ reply.op = "fetch_file"

\* The step is a progress callback of task t with a "downloading" signal, with
\* any other phase.
DownloadingCallback(t) == \E d \in HookDicts : d.status = "downloading" /\ progress_hook(t, d)
OtherCallback(t) == \E d \in HookDicts : d.status /= "downloading" /\ progress_hook(t, d)

\* C18: a queued task leaves queued for running exactly at a callback with a
\* "downloading" signal; starting the executor and building the options leave
\* the entry as it is, and so does a callback with another phase; any other
\* step that moves a queued task moves it to finished or failed.
C18_QueuedUntilFirstDownloadingCallback ==
    [][\A t \in DOMAIN progress_store :
          progress_store[t].status = "queued" =>
              /\ DownloadingCallback(t) <=> progress_store'[t].status = "downloading"
              /\ run[t].pc = "pending" /\ run'[t].pc = "extract_info" =>
                     progress_store'[t] = progress_store[t]
              /\ OtherCallback(t) => progress_store'[t] = progress_store[t]
              /\ ~DownloadingCallback(t) =>
                     progress_store'[t].status \in {"queued"} \cup Terminal]_vars

\* C18 witness: a task turned running by the only callback it has received.
C18_Witness ==
    \E t \in DOMAIN progress_store :
        /\ run[t].pc = "extract_info"
        /\ run[t].hooks = 1
        /\ progress_store[t].status = "downloading"

\* The task is video-class and its options include a convert post-step.
VideoWithConvertStep(r) ==
    /\ ~FmtRaises(r.fmt)
    /\ Lower(r.fmt.v) \in video_exts
    /\ ~QualityRaises(r.quality)
    /\ postprocessors(Lower(r.fmt.v), r.quality) = <<"FFmpegVideoConvertor">>

\* C19: without the transcoding capability, a video-class task with a convert
\* post-step never has the fetch operation called, and once its executor has
\* started it is failed.
C19_VideoConvertWithoutCapabilityFails ==
    \A t \in DOMAIN run :
        ~FFMPEG_EXISTS /\ VideoWithConvertStep(run[t]) =>
            /\ run[t].calls = 0
            /\ run[t].pc /= "pending" => progress_store[t].status = "error"

\* The positions of a listing whose name ends with "." + ext, whatever its case.
Matching(files, ext) ==
    {i \in 1..Len(files) : EndsWith(Lower(files[i]), <<".">> \o ext)}

\* C20: on every normal return of the fetch operation with the working area
\* listed as files (by name) and scan (by entry): if a name ends with the
\* requested extension the task becomes finished with such a file as its
\* file_path; otherwise, if the area is not empty, finished with the first
\* entry of the area; otherwise failed, and file_path stays as it was, absent.
C20_ArtifactChosenFromWorkingArea ==
    [][\A t \in DOMAIN run : \A p \in ListingPairs :
          extract_info_return(t, p[1], p[2]) =>
              LET ext == Lower(run[t].fmt.v)
                  after == progress_store'[t]
              IN  IF Matching(p[1], ext) /= {}
                  THEN /\ after.status = "finished"
                       /\ \E i \in Matching(p[1], ext) :
                             after.file_path = JStr(PathJoin(TempDir(t), p[1][i]))
                  ELSE IF p[2] /= <<>>
                  THEN /\ after.status = "finished"
                       /\ after.file_path = JStr(PathJoin(TempDir(t), p[2][1]))
                  ELSE /\ after.status = "error"
                       /\ after.file_path = JNull
                       /\ progress_store[t].file_path = JNull]_vars

\* C20 witness: a task asked for mp3 is finished with the file V.MP3, found by
\* its extension.
C20_Witness ==
    \E t \in DOMAIN run :
        /\ run[t].pc = "picked"
        /\ Lower(run[t].fmt.v) = mp3
        /\ progress_store[t].file_path = JStr(PathJoin(TempDir(t), <<"V", ".", "M", "P", "3">>))

====
